---- MODULE Spec2Model ----
(***************************************************************************)
(* Model of ai_service_monitor_sis.py: a Streamlit page that fetches seven *)
(* usage facets from Snowflake ACCOUNT_USAGE views through functions       *)
(* memoized with st.cache_data(ttl=600) and renders one section per facet. *)
(* One script run (render pass) is a sequence of steps tracked by pc.      *)
(***************************************************************************)
EXTENDS Integers, Sequences, FiniteSets, TLC

VARIABLES
    now,                    \* wall clock, seconds
    upstream,               \* per facet: state of the ACCOUNT_USAGE view behind it
    cache,                  \* st.cache_data store: (function, days_limit) -> entry
    SESSION_AVAILABLE,      \* module global set by the session block
    in_snowflake,           \* environment: does get_active_session() find a session
    pc,                     \* position of the running script
    days_widget,            \* state of the days selectbox kept by the browser session
    session_state,          \* st.session_state: set of <<key, value>> pairs
    selected_days,          \* script variable
    df,                     \* script variables df_ai_usage .. df_docai_usage
    selected_service,       \* script variable
    filtered_df_consumption,\* script variable
    out,                    \* elements emitted by this run, in order
    sqlCalls,               \* per facet: queries executed by the Gateway in this run
    fetchArg,               \* per facet: days_limit the fetch was called with in this run
    lastFetch,              \* record of the most recent fetch call
    lastCall,               \* per cache key: record of the most recent call of that key
    userSelected,           \* has the user ever picked a value in the days selectbox
    passes, ticks, changes  \* counters bounding the exploration

vars == << now, upstream, cache, SESSION_AVAILABLE, in_snowflake, pc, days_widget,
           session_state, selected_days, df, selected_service,
           filtered_df_consumption, out, sqlCalls, fetchArg, lastFetch,
           lastCall, userSelected, passes, ticks, changes >>

(***************************************************************************)
(* Bounds of the exploration.                                              *)
(***************************************************************************)
MaxPasses == 3
MaxTicks == 2
MaxChanges == 1

(***************************************************************************)
(* Program constants.                                                      *)
(***************************************************************************)
TTL == 600
days_options == << 7, 14, 30, 60, 90 >>
DefaultIndex == 2
AllServices == "All Services"

\* the seven memoized fetch functions, in the order the page calls them
FetchOrder == << "fetch_ai_usage_data", "fetch_llm_function_usage",
                 "fetch_complete_model_usage", "fetch_cortex_search_by_service",
                 "fetch_cortex_search_by_consumption", "fetch_cortex_analyst_usage",
                 "fetch_document_ai_usage" >>

Range(s) == { s[i] : i \in 1..Len(s) }

Facets == Range(FetchOrder)

DaysSet == Range(days_options)

\* selectbox(index=2): Python's 0-based index into days_options
DefaultDaysOffByOne == days_options[DefaultIndex]
DefaultDays == days_options[DefaultIndex + 1]

Unset == [unset |-> TRUE]

(***************************************************************************)
(* DataFrames: a sequence of column names and a sequence of rows, each row *)
(* a sequence of values aligned with the columns.                          *)
(***************************************************************************)
DataFrame(cols, rows) == [columns |-> cols, rows |-> rows]

\* pd.DataFrame(): no columns, no rows
EmptyDataFrame == DataFrame(<< >>, << >>)

\* DataFrame.empty
IsEmpty(d) == Len(d.rows) = 0 \/ Len(d.columns) = 0

LowerCase == [ c \in { "USAGE_DATE", "CREDITS_USED", "FUNCTION_NAME", "MODEL_NAME",
                       "TOTAL_TOKEN_CREDITS", "SERVICE_NAME", "CONSUMPTION_TYPE",
                       "TOTAL_CREDITS" } |->
    CASE c = "USAGE_DATE" -> "usage_date"
      [] c = "CREDITS_USED" -> "credits_used"
      [] c = "FUNCTION_NAME" -> "function_name"
      [] c = "MODEL_NAME" -> "model_name"
      [] c = "TOTAL_TOKEN_CREDITS" -> "total_token_credits"
      [] c = "SERVICE_NAME" -> "service_name"
      [] c = "CONSUMPTION_TYPE" -> "consumption_type"
      [] c = "TOTAL_CREDITS" -> "total_credits" ]

\* pd_df.columns = [col.lower() for col in pd_df.columns]
LowerColumns(d) == DataFrame([i \in 1..Len(d.columns) |-> LowerCase[d.columns[i]]], d.rows)

HasColumn(d, name) == \E i \in 1..Len(d.columns) : d.columns[i] = name

ColIndex(d, name) == CHOOSE i \in 1..Len(d.columns) : d.columns[i] = name

\* a DATE value of the warehouse is a day offset from CURRENT_DATE (0 = today);
\* pd.to_datetime turns it into a timestamp at midnight of that day
Date(off) == << "date", off >>
to_datetime(v) == << "datetime64", v[2] >>

\* pd_df['usage_date'] = pd.to_datetime(pd_df['usage_date'])
ConvertUsageDate(d) ==
    LET c == ColIndex(d, "usage_date")
    IN DataFrame(d.columns,
                 [i \in 1..Len(d.rows) |->
                     [j \in 1..Len(d.rows[i]) |->
                         IF j = c THEN to_datetime(d.rows[i][j]) ELSE d.rows[i][j]]])

RECURSIVE SortRows(_, _)
\* stable ascending sort of rows on column c (selection of the first minimum)
SortRows(rows, c) ==
    IF Len(rows) = 0 THEN << >>
    ELSE LET m == CHOOSE i \in 1..Len(rows) :
                     /\ \A j \in 1..Len(rows) : rows[i][c][2] <= rows[j][c][2]
                     /\ \A j \in 1..(i - 1) : rows[j][c][2] > rows[i][c][2]
             rest == [k \in 1..(Len(rows) - 1) |-> IF k < m THEN rows[k] ELSE rows[k + 1]]
         IN << rows[m] >> \o SortRows(rest, c)

\* pd_df.sort_values(by='usage_date', ascending=True)
sort_values(d) == DataFrame(d.columns, SortRows(d.rows, ColIndex(d, "usage_date")))

Reverse(s) == [i \in 1..Len(s) |-> s[Len(s) + 1 - i]]

Min(a, b) == IF a < b THEN a ELSE b

(***************************************************************************)
(* The warehouse.  Each facet reads one ACCOUNT_USAGE view; its state is   *)
(* "QueryError" (the query fails: missing privilege, missing view, ...) or *)
(* one of a few data sets.  Rows are given already aggregated per group,   *)
(* in ascending order of the grouping columns.                             *)
(***************************************************************************)
UpstreamStates == { "QueryError", "A", "B" }

RawColumns(f) ==
    CASE f = "fetch_ai_usage_data" -> << "USAGE_DATE", "CREDITS_USED" >>
      [] f = "fetch_llm_function_usage" -> << "USAGE_DATE", "FUNCTION_NAME", "TOTAL_TOKEN_CREDITS" >>
      [] f = "fetch_complete_model_usage" -> << "USAGE_DATE", "MODEL_NAME", "TOTAL_TOKEN_CREDITS" >>
      [] f = "fetch_cortex_search_by_service" -> << "USAGE_DATE", "SERVICE_NAME", "TOTAL_CREDITS" >>
      [] f = "fetch_cortex_search_by_consumption" ->
             << "USAGE_DATE", "SERVICE_NAME", "CONSUMPTION_TYPE", "TOTAL_CREDITS" >>
      [] f = "fetch_cortex_analyst_usage" -> << "USAGE_DATE", "TOTAL_CREDITS" >>
      [] f = "fetch_document_ai_usage" -> << "USAGE_DATE", "TOTAL_CREDITS" >>

\* data set "D": one row for each day from (today - 7) to today, the N + 1
\* days of the shortest lookback window
DenseRows(f) ==
    [i \in 1..(days_options[1] + 1) |->
        LET day == Date(i - 1 - days_options[1])
        IN IF Len(RawColumns(f)) = 2 THEN << day, i >>
           ELSE IF f = "fetch_llm_function_usage" THEN << day, "COMPLETE", i >>
           ELSE IF f = "fetch_complete_model_usage" THEN << day, "llama3-8b", i >>
           ELSE IF f = "fetch_cortex_search_by_service" THEN << day, "ServiceX", i >>
           ELSE << day, "ServiceX", "QUERY", i >>]

\* data set "A" has rows in every lookback window, data set "B" only rows
\* older than 30 days (no rows for the windows 7, 14 and 30)
ViewRows(f, s) ==
    CASE s = "QueryError" -> << >>
      [] s = "D" -> DenseRows(f)
      [] f \in { "fetch_ai_usage_data", "fetch_cortex_analyst_usage", "fetch_document_ai_usage" } ->
             IF s = "A" THEN << << Date(-40), 5 >>, << Date(-10), 12 >>, << Date(-3), 7 >> >>
                        ELSE << << Date(-50), 3 >> >>
      [] f = "fetch_llm_function_usage" ->
             IF s = "A" THEN << << Date(-40), "COMPLETE", 5 >>, << Date(-10), "COMPLETE", 12 >>,
                                << Date(-3), "TRANSLATE", 7 >> >>
                        ELSE << << Date(-50), "SUMMARIZE", 3 >> >>
      [] f = "fetch_complete_model_usage" ->
             IF s = "A" THEN << << Date(-40), "mistral-7b", 5 >>, << Date(-10), "llama3-8b", 12 >>,
                                << Date(-3), "mistral-7b", 7 >> >>
                        ELSE << << Date(-50), "llama3-8b", 3 >> >>
      [] f = "fetch_cortex_search_by_service" ->
             IF s = "A" THEN << << Date(-40), "ServiceY", 5 >>, << Date(-10), "ServiceX", 12 >>,
                                << Date(-3), "ServiceX", 7 >>, << Date(-3), "ServiceY", 2 >> >>
                        ELSE << << Date(-50), "ServiceZ", 3 >> >>
      [] f = "fetch_cortex_search_by_consumption" ->
             IF s = "A" THEN << << Date(-40), "ServiceY", "QUERY", 5 >>,
                                << Date(-10), "ServiceX", "QUERY", 12 >>,
                                << Date(-3), "ServiceX", "QUERY", 7 >>,
                                << Date(-3), "ServiceY", "QUERY", 2 >> >>
                        ELSE << << Date(-50), "ServiceZ", "QUERY", 3 >> >>

\* WHERE <date> >= DATEADD(day, -N, CURRENT_DATE())
InWindow(row, N) == row[1][2] >= 0 - N

\* the rows the facet's query returns for days_limit N
QueryRows(f, N, s) ==
    LET sel == SelectSeq(ViewRows(f, s), LAMBDA r : InWindow(r, N))
    IN IF f = "fetch_ai_usage_data"
       THEN \* ORDER BY usage_date DESC LIMIT N
            SubSeq(Reverse(sel), 1, Min(N, Len(sel)))
       ELSE \* GROUP BY ... ORDER BY 1[, 2[, 3]]
            sel

\* session.sql(query).to_pandas(): raises, or returns a frame with the
\* view's upper-case column names
Execute(f, N, s) ==
    IF s = "QueryError"
    THEN [raised |-> TRUE, frame |-> EmptyDataFrame]
    ELSE [raised |-> FALSE, frame |-> DataFrame(RawColumns(f), QueryRows(f, N, s))]

(***************************************************************************)
(* Result Normalizer: the bodies of the seven fetch functions.  A body     *)
(* yields the returned frame, the st.* elements it emitted, the number of  *)
(* queries it executed and which path it took.                             *)
(***************************************************************************)
El(kind, f) == [kind |-> kind, facet |-> f]

\* raised: an exception leaves the function
Result(ret, msgs, sql, outcome) ==
    [ret |-> ret, msgs |-> msgs, sql |-> sql, outcome |-> outcome, raised |-> FALSE]

Raise(sql) == [ret |-> EmptyDataFrame, msgs |-> << >>, sql |-> sql, outcome |-> "error", raised |-> TRUE]

\* the except-blocks: what each function shows when the query raises
ErrorElements(f) ==
    IF f = "fetch_ai_usage_data"
    THEN << El("error", f) >>
    ELSE IF f \in { "fetch_llm_function_usage", "fetch_complete_model_usage" }
    THEN << El("error", f), El("warning", f) >>
    ELSE << El("error", f), El("warning", f), El("error_query", f) >>

\* columns lower-cased (fetch_document_ai_usage assigns the two names), the
\* date column converted, and for fetch_ai_usage_data the rows sorted
Normalize(f, frame) ==
    LET named == IF f = "fetch_document_ai_usage"
                 THEN DataFrame(<< "usage_date", "total_credits" >>, frame.rows)
                 ELSE LowerColumns(frame)
        dated == ConvertUsageDate(named)
    IN IF f = "fetch_ai_usage_data" THEN sort_values(dated) ELSE dated

\* if pd_df.empty: return pd.DataFrame()
NoRowsKeepsFrame(frame) == frame
NoRowsResult(frame) == EmptyDataFrame

\* except Exception as e: st.error(...); return pd.DataFrame()
ExceptReraise(f) == Raise(1)
ExceptRetry(f) == Result(EmptyDataFrame, ErrorElements(f), 2, "error")
ExceptResult(f) == Result(EmptyDataFrame, ErrorElements(f), 1, "error")

\* try: session.sql(query).to_pandas() ... except Exception
TryQuery(f, days_limit, s) ==
    LET r == Execute(f, days_limit, s)
    IN IF r.raised THEN ExceptResult(f)
       ELSE IF IsEmpty(r.frame) THEN Result(NoRowsResult(r.frame), << >>, 1, "no_rows")
       ELSE Result(Normalize(f, r.frame), << >>, 1, "rows")

\* if not SESSION_AVAILABLE: return pd.DataFrame()
FetchBody(f, days_limit, s, sess) ==
    IF ~sess THEN Result(EmptyDataFrame, << >>, 0, "no_session")
    ELSE TryQuery(f, days_limit, s)

fetch_ai_usage_data(days_limit, s, sess) == FetchBody("fetch_ai_usage_data", days_limit, s, sess)
fetch_llm_function_usage(days_limit, s, sess) == FetchBody("fetch_llm_function_usage", days_limit, s, sess)
fetch_complete_model_usage(days_limit, s, sess) == FetchBody("fetch_complete_model_usage", days_limit, s, sess)
fetch_cortex_search_by_service(days_limit, s, sess) == FetchBody("fetch_cortex_search_by_service", days_limit, s, sess)
fetch_cortex_search_by_consumption(days_limit, s, sess) == FetchBody("fetch_cortex_search_by_consumption", days_limit, s, sess)
fetch_cortex_analyst_usage(days_limit, s, sess) == FetchBody("fetch_cortex_analyst_usage", days_limit, s, sess)
fetch_document_ai_usage(days_limit, s, sess) == FetchBody("fetch_document_ai_usage", days_limit, s, sess)

(***************************************************************************)
(* Memoized Fetch Layer: @st.cache_data(ttl=600).  An entry keeps the      *)
(* returned frame, the time it was stored and the elements the body        *)
(* emitted, which a cache hit replays.  (outcome is bookkeeping: the path  *)
(* the body took when the entry was made.)                                 *)
(***************************************************************************)
Keys == Facets \X DaysSet

NoEntryRec == [entry |-> FALSE, table |-> EmptyDataFrame, stored |-> 0, msgs |-> << >>, outcome |-> "none"]

EntryUnlessError(r, t) ==
    IF r.outcome = "error" THEN NoEntryRec
    ELSE [entry |-> TRUE, table |-> r.ret, stored |-> t, msgs |-> r.msgs, outcome |-> r.outcome]
Entry(r, t) == [entry |-> TRUE, table |-> r.ret, stored |-> t, msgs |-> r.msgs, outcome |-> r.outcome]


\* an entry expires once ttl seconds have passed since it was stored
ExpiredAlways(e, t) == t - e.stored >= 0
ExpiredEarly(e, t) == t - e.stored >= TTL - 1
ExpiredLate(e, t) == t - e.stored > TTL
Expired(e, t) == t - e.stored >= TTL

IsHit(e, t) == e.entry /\ ~Expired(e, t)

(***************************************************************************)
(* Initial state: the page is opened for the first time; nothing cached,   *)
(* no widget touched, the script about to run.                             *)
(***************************************************************************)
IsSet(x) == "columns" \in DOMAIN x

NoFetch == [f |-> "none", days |-> 0, hit |-> FALSE, outcome |-> "none", sql |-> 0,
            ret |-> EmptyDataFrame, time |-> 0, prev |-> NoEntryRec, up |-> "none"]

NoCall == [called |-> FALSE, time |-> 0, ret |-> EmptyDataFrame, up |-> "none"]

InitWith(ups) ==
    /\ now = 0
    /\ upstream \in ups
    /\ cache = [k \in Keys |-> NoEntryRec]
    /\ SESSION_AVAILABLE = FALSE
    /\ in_snowflake \in BOOLEAN
    /\ pc = "get_session"
    /\ days_widget = DefaultDays
    /\ session_state = {}
    /\ selected_days = 0
    /\ df = [f \in Facets |-> Unset]
    /\ selected_service = ""
    /\ filtered_df_consumption = Unset
    /\ out = << >>
    /\ sqlCalls = [f \in Facets |-> 0]
    /\ fetchArg = [f \in Facets |-> 0]
    /\ lastFetch = NoFetch
    /\ lastCall = [k \in Keys |-> NoCall]
    /\ userSelected = FALSE
    /\ passes = 1
    /\ ticks = 0
    /\ changes = 0

\* every view in the same state: the role can read the views, or it cannot
Init == InitWith({ [f \in Facets |-> s] : s \in { "QueryError", "A" } })

\* any mix of failing views, views without recent rows and views with rows
InitAny == InitWith([Facets -> UpstreamStates])

(***************************************************************************)
(* The script, top to bottom.                                              *)
(***************************************************************************)
\* lines 15-37: title, notes, caption, then get_active_session()
GetSession ==
    /\ pc = "get_session"
    /\ SESSION_AVAILABLE' = in_snowflake
    /\ out' = out \o << El("title", "page"), El("markdown", "page"), El("caption", "page") >>
                  \o (IF in_snowflake THEN << >> ELSE << El("error", "page"), El("warning", "page") >>)
    /\ pc' = "check_session"
    /\ UNCHANGED << now, upstream, cache, in_snowflake, days_widget, session_state, selected_days, df,
                    selected_service, filtered_df_consumption, sqlCalls, fetchArg,
                    lastFetch, lastCall, userSelected, passes, ticks, changes >>

CheckSessionNoStop ==
    /\ pc = "check_session"
    /\ out' = IF SESSION_AVAILABLE THEN Append(out, El("caption", "page")) ELSE out
    /\ pc' = "selectbox"
    /\ UNCHANGED << now, upstream, cache, SESSION_AVAILABLE, in_snowflake, days_widget, session_state,
                    selected_days, df, selected_service, filtered_df_consumption, sqlCalls,
                    fetchArg, lastFetch, lastCall, userSelected, passes, ticks, changes >>
\* lines 259-262: caption with role and warehouse, or st.stop()
CheckSession ==
    /\ pc = "check_session"
    /\ IF SESSION_AVAILABLE
       THEN /\ out' = Append(out, El("caption", "page"))
            /\ pc' = "selectbox"
       ELSE /\ out' = out
            /\ pc' = "stopped"
    /\ UNCHANGED << now, upstream, cache, SESSION_AVAILABLE, in_snowflake, days_widget, session_state,
                    selected_days, df, selected_service, filtered_df_consumption, sqlCalls,
                    fetchArg, lastFetch, lastCall, userSelected, passes, ticks, changes >>

\* lines 265-270: the selectbox returns the widget's current value
SelectDays ==
    /\ pc = "selectbox"
    /\ selected_days' = days_widget
    /\ out' = Append(out, El("selectbox", "page"))
    /\ pc' = "fetch_ai_usage_data"
    /\ UNCHANGED << now, upstream, cache, SESSION_AVAILABLE, in_snowflake, days_widget, session_state, df,
                    selected_service, filtered_df_consumption, sqlCalls, fetchArg,
                    lastFetch, lastCall, userSelected, passes, ticks, changes >>

\* a call of a function wrapped by st.cache_data: a fresh entry is returned
\* and its elements replayed; otherwise the body runs and its result is stored
CachedCall(f, days_limit, body, next) ==
    LET k == << f, days_limit >>
        e == cache[k]
        hit == IsHit(e, now)
        r == IF hit THEN Result(e.table, e.msgs, 0, e.outcome) ELSE body
    IN /\ out' = out \o r.msgs
       /\ sqlCalls' = [sqlCalls EXCEPT ![f] = @ + r.sql]
       /\ fetchArg' = [fetchArg EXCEPT ![f] = days_limit]
       /\ lastFetch' = [f |-> f, days |-> days_limit, hit |-> hit, outcome |-> r.outcome,
                        sql |-> r.sql, ret |-> r.ret, time |-> now, prev |-> e,
                        up |-> upstream[f]]
       /\ lastCall' = [lastCall EXCEPT ![k] = [called |-> TRUE, time |-> now, ret |-> r.ret,
                                              up |-> upstream[f]]]
       /\ IF r.raised
          THEN \* an exception that leaves the function ends the run; nothing is stored
               /\ pc' = "crashed"
               /\ UNCHANGED << cache, df >>
          ELSE /\ cache' = IF hit THEN cache ELSE [cache EXCEPT ![k] = Entry(r, now)]
               /\ df' = [df EXCEPT ![f] = r.ret]
               /\ pc' = next
       /\ UNCHANGED << now, upstream, SESSION_AVAILABLE, in_snowflake, days_widget, session_state,
                       selected_days, selected_service, filtered_df_consumption,
                       userSelected, passes, ticks, changes >>

\* line 273
FetchAiUsage ==
    /\ pc = "fetch_ai_usage_data"
    /\ CachedCall("fetch_ai_usage_data", selected_days,
                  fetch_ai_usage_data(selected_days, upstream["fetch_ai_usage_data"], SESSION_AVAILABLE),
                  "fetch_llm_function_usage")

\* line 274
FetchLlmUsage ==
    /\ pc = "fetch_llm_function_usage"
    /\ CachedCall("fetch_llm_function_usage", selected_days,
                  fetch_llm_function_usage(selected_days, upstream["fetch_llm_function_usage"], SESSION_AVAILABLE),
                  "fetch_complete_model_usage")

\* line 275
FetchCompleteUsage ==
    /\ pc = "fetch_complete_model_usage"
    /\ CachedCall("fetch_complete_model_usage", selected_days,
                  fetch_complete_model_usage(selected_days, upstream["fetch_complete_model_usage"], SESSION_AVAILABLE),
                  "fetch_cortex_search_by_service")

\* line 276
FetchSearchService ==
    /\ pc = "fetch_cortex_search_by_service"
    /\ CachedCall("fetch_cortex_search_by_service", selected_days,
                  fetch_cortex_search_by_service(selected_days, upstream["fetch_cortex_search_by_service"], SESSION_AVAILABLE),
                  "fetch_cortex_search_by_consumption")

\* line 277
FetchSearchConsumption ==
    /\ pc = "fetch_cortex_search_by_consumption"
    /\ CachedCall("fetch_cortex_search_by_consumption", selected_days,
                  fetch_cortex_search_by_consumption(selected_days, upstream["fetch_cortex_search_by_consumption"], SESSION_AVAILABLE),
                  "fetch_cortex_analyst_usage")

\* line 278
FetchAnalystUsage ==
    /\ pc = "fetch_cortex_analyst_usage"
    /\ CachedCall("fetch_cortex_analyst_usage", selected_days,
                  fetch_cortex_analyst_usage(selected_days, upstream["fetch_cortex_analyst_usage"], SESSION_AVAILABLE),
                  "fetch_document_ai_usage")

\* line 279
FetchDocAiUsage ==
    /\ pc = "fetch_document_ai_usage"
    /\ CachedCall("fetch_document_ai_usage", selected_days,
                  fetch_document_ai_usage(selected_days, upstream["fetch_document_ai_usage"], SESSION_AVAILABLE),
                  "section1")

(***************************************************************************)
(* Presentation Layer: one section per facet.                              *)
(***************************************************************************)
HasKey(ss, key) == \E p \in ss : p[1] = key

ValueOf(ss, key) == (CHOOSE p \in ss : p[1] = key)[2]

\* hasattr(value, 'exception'): the values kept in st.session_state are the
\* widgets' values (str), which have no such attribute
HasAttrException(v) == FALSE

\* 'fetch_x' not in st.session_state or not hasattr(st.session_state.fetch_x, 'exception')
ShowNoDataInverted(ss, f) == HasKey(ss, f)
ShowNoData(ss, f) == ~HasKey(ss, f) \/ ~HasAttrException(ValueOf(ss, f))

\* if not df.empty: chart and raw-data expander; else the no-data message
RenderFacetChartAlways(ss, f, d) ==
    << El("altair_chart", f), El("dataframe", f) >>
RenderFacet(ss, f, d) ==
    IF ~IsEmpty(d)
    THEN << El("altair_chart", f), El("dataframe", f) >>
    ELSE IF ShowNoData(ss, f) THEN << El("write", f) >> ELSE << >>

Section(f, heading, next) ==
    /\ out' = out \o heading \o RenderFacet(session_state, f, df[f])
    /\ pc' = next
    /\ UNCHANGED << now, upstream, cache, SESSION_AVAILABLE, in_snowflake, days_widget, session_state,
                    selected_days, df, selected_service, filtered_df_consumption, sqlCalls,
                    fetchArg, lastFetch, lastCall, userSelected, passes, ticks, changes >>

\* lines 286-300
Section1 ==
    /\ pc = "section1"
    /\ Section("fetch_ai_usage_data",
               << El("markdown", "fetch_ai_usage_data"), El("header", "fetch_ai_usage_data") >>,
               "llm_tab1")

\* lines 302-322
LlmTab1 ==
    /\ pc = "llm_tab1"
    /\ Section("fetch_llm_function_usage",
               << El("markdown", "fetch_llm_function_usage"), El("header", "fetch_llm_function_usage"),
                  El("tabs", "fetch_llm_function_usage"), El("subheader", "fetch_llm_function_usage") >>,
               "llm_tab2")

\* lines 324-339
LlmTab2 ==
    /\ pc = "llm_tab2"
    /\ Section("fetch_complete_model_usage",
               << El("subheader", "fetch_complete_model_usage") >>, "search_tab1")

\* lines 342-369
SearchTab1 ==
    /\ pc = "search_tab1"
    /\ Section("fetch_cortex_search_by_service",
               << El("markdown", "fetch_cortex_search_by_service"), El("header", "fetch_cortex_search_by_service"),
                  El("tabs", "fetch_cortex_search_by_service"), El("subheader", "fetch_cortex_search_by_service") >>,
               "search_tab2")

FilterKey == "cortex_service_filter"

\* ['All Services'] + sorted(df['service_name'].unique()), as the set of options
service_names(d) ==
    { AllServices } \cup { d.rows[i][ColIndex(d, "service_name")] : i \in 1..Len(d.rows) }

\* df[df['service_name'] == selected]
FilterNotEqual(d, selected) ==
    DataFrame(d.columns, SelectSeq(d.rows, LAMBDA r : r[ColIndex(d, "service_name")] # selected))
FilterByService(d, selected) ==
    DataFrame(d.columns, SelectSeq(d.rows, LAMBDA r : r[ColIndex(d, "service_name")] = selected))

\* lines 386-389
ApplyFilter(d, selected) ==
    IF selected = AllServices THEN d ELSE FilterByService(d, selected)

\* the keyed selectbox returns the value kept for its key when that value is
\* still one of the options, else the first option
SelectboxValue(ss, options) ==
    IF HasKey(ss, FilterKey) /\ ValueOf(ss, FilterKey) \in options
    THEN ValueOf(ss, FilterKey) ELSE AllServices

\* lines 372-415
SearchTab2 ==
    LET f == "fetch_cortex_search_by_consumption"
        d == df[f]
        sel == SelectboxValue(session_state, service_names(d))
        filtered == ApplyFilter(d, sel)
    IN /\ pc = "search_tab2"
       /\ IF ~IsEmpty(d)
          THEN /\ selected_service' = sel
               /\ session_state' = { << FilterKey, sel >> }
               /\ filtered_df_consumption' = filtered
               /\ out' = out \o << El("subheader", f), El("selectbox", f) >>
                             \o (IF ~IsEmpty(filtered)
                                 THEN << El("altair_chart", f), El("dataframe", f) >>
                                 ELSE << El("write_service", f) >>)
          ELSE \* the selectbox is not created in this run: its state is dropped
               /\ session_state' = {}
               /\ out' = out \o << El("subheader", f) >> \o RenderFacet(session_state, f, d)
               /\ UNCHANGED << selected_service, filtered_df_consumption >>
       /\ pc' = "section4"
       /\ UNCHANGED << now, upstream, cache, SESSION_AVAILABLE, in_snowflake, days_widget, selected_days, df,
                       sqlCalls, fetchArg, lastFetch, lastCall, userSelected, passes, ticks,
                       changes >>

\* lines 417-448
Section4 ==
    /\ pc = "section4"
    /\ Section("fetch_cortex_analyst_usage",
               << El("markdown", "fetch_cortex_analyst_usage"), El("header", "fetch_cortex_analyst_usage") >>,
               "section5")

\* lines 450-475
Section5 ==
    /\ pc = "section5"
    /\ Section("fetch_document_ai_usage",
               << El("markdown", "fetch_document_ai_usage"), El("header", "fetch_document_ai_usage") >>,
               "done")

(***************************************************************************)
(* The user and the environment.  A widget change or a rerun request       *)
(* starts a new run of the script once the previous one has ended.         *)
(***************************************************************************)
Ended == pc \in { "done", "stopped", "crashed" }

StartRun ==
    /\ Ended
    /\ passes < MaxPasses
    /\ passes' = passes + 1
    /\ pc' = "get_session"
    /\ out' = << >>
    /\ selected_days' = 0
    /\ df' = [f \in Facets |-> Unset]
    /\ selected_service' = ""
    /\ filtered_df_consumption' = Unset
    /\ sqlCalls' = [f \in Facets |-> 0]
    /\ fetchArg' = [f \in Facets |-> 0]
    /\ lastFetch' = NoFetch
    /\ UNCHANGED << now, upstream, cache, SESSION_AVAILABLE, in_snowflake, lastCall, ticks, changes >>

\* the user picks another lookback window
ChangeDays ==
    /\ pc = "done"
    /\ \E n \in DaysSet \ { days_widget } : days_widget' = n
    /\ userSelected' = TRUE
    /\ StartRun
    /\ UNCHANGED session_state

\* the user picks another service in the tab 3.2 filter
ChangeServiceFilter ==
    /\ pc = "done"
    /\ ~IsEmpty(df["fetch_cortex_search_by_consumption"])
    /\ \E s \in service_names(df["fetch_cortex_search_by_consumption"]) \ { selected_service } :
          session_state' = { << FilterKey, s >> }
    /\ StartRun
    /\ UNCHANGED << days_widget, userSelected >>

\* the user asks for a rerun without touching a widget
Rerun ==
    /\ StartRun
    /\ UNCHANGED << days_widget, userSelected, session_state >>

TickSteps == { 1, TTL - 1 }

\* time passes; the clock is advanced between two runs of the script (a run
\* is short against the ttl)
Tick ==
    /\ Ended
    /\ ticks < MaxTicks
    /\ ticks' = ticks + 1
    /\ \E d \in TickSteps : now' = now + d
    /\ UNCHANGED << upstream, cache, SESSION_AVAILABLE, in_snowflake, pc, days_widget, session_state,
                    selected_days, df, selected_service, filtered_df_consumption, out,
                    sqlCalls, fetchArg, lastFetch, lastCall, userSelected, passes, changes >>

\* the data behind a facet changes, or its query starts or stops failing; the
\* change is seen by the run that starts next
DataChange ==
    /\ pc = "get_session"
    /\ changes < MaxChanges
    /\ changes' = changes + 1
    /\ \E f \in Facets : \E s \in UpstreamStates \ { upstream[f] } :
          upstream' = [upstream EXCEPT ![f] = s]
    /\ UNCHANGED << now, cache, SESSION_AVAILABLE, in_snowflake, pc, days_widget, session_state,
                    selected_days, df, selected_service, filtered_df_consumption, out,
                    sqlCalls, fetchArg, lastFetch, lastCall, userSelected, passes, ticks >>

Script ==
    \/ GetSession \/ CheckSession \/ SelectDays
    \/ FetchAiUsage \/ FetchLlmUsage \/ FetchCompleteUsage \/ FetchSearchService
    \/ FetchSearchConsumption \/ FetchAnalystUsage \/ FetchDocAiUsage
    \/ Section1 \/ LlmTab1 \/ LlmTab2 \/ SearchTab1 \/ SearchTab2 \/ Section4 \/ Section5

\* the page over time: reruns, window changes, the clock and the warehouse
Next == Script \/ ChangeDays \/ Rerun \/ Tick \/ DataChange

Spec == Init /\ [][Next]_vars

\* the page over every mix of upstream states, with the service filter in use
NextPage == Script \/ ChangeServiceFilter

SpecPage == InitAny /\ [][NextPage]_vars

\* every view holding the same data set, one of them the dense one
InitDense == InitWith({ [f \in Facets |-> s] : s \in { "A", "B", "D" } })

\* the queries under every lookback window
NextQuery == Script \/ ChangeDays

SpecQuery == InitDense /\ [][NextQuery]_vars

\* every view readable and holding rows
InitRows == InitWith({ [f \in Facets |-> "A"] })

\* everything that can happen to the page while its cache entries are fresh
\* or ageing: both widgets, reruns, the clock and the warehouse
NextInvalidate == Script \/ ChangeDays \/ ChangeServiceFilter \/ Rerun \/ Tick \/ DataChange

SpecInvalidate == InitRows /\ [][NextInvalidate]_vars

\* the page under the user's window changes and reruns alone
NextWindows == Script \/ ChangeDays \/ Rerun

SpecWindows == Init /\ [][NextWindows]_vars

(***************************************************************************)
(* Properties.                                                             *)
(***************************************************************************)
\* the step that calls fetch function f (pc is at the call of f and moves on)
CallsFetch(f) == pc = f /\ pc' # pc

KeyNow(f) == << f, selected_days >>

LastKey == << lastFetch.f, lastFetch.days >>

\* C1, as stated: whenever fetch(facet, N) is called less than 600 seconds
\* after the previous call of fetch(facet, N) and the data behind the facet is
\* what it was at that call, the call returns the table the previous call
\* returned and the Gateway executes no query for it.
C1_TwoCallsWithinTTL ==
    [][ \A f \in Facets :
          ( /\ CallsFetch(f)
            /\ lastCall[KeyNow(f)].called
            /\ now - lastCall[KeyNow(f)].time < TTL
            /\ lastCall[KeyNow(f)].up = upstream[f] )
          => ( /\ df'[f] = lastCall[KeyNow(f)].ret
               /\ sqlCalls'[f] = sqlCalls[f] ) ]_vars

\* C1, amended: whenever fetch(facet, N) is called less than 600 seconds
\* after the call that stored the entry of (facet, N), i.e. the last call of
\* that key that invoked the Gateway, the call returns the table that call
\* returned (also the table the previous call returned), the Gateway executes
\* no query for it and the entry is left as it is.
C1_HitWithinTTLOfStore ==
    [][ \A f \in Facets :
          ( /\ CallsFetch(f)
            /\ cache[KeyNow(f)].entry
            /\ now - cache[KeyNow(f)].stored < TTL )
          => ( /\ df'[f] = cache[KeyNow(f)].table
               /\ df'[f] = lastCall[KeyNow(f)].ret
               /\ sqlCalls'[f] = sqlCalls[f]
               /\ cache'[KeyNow(f)] = cache[KeyNow(f)] ) ]_vars

\* a fetch answered from an entry stored 599 seconds before, with rows
C1_Witness ==
    /\ lastFetch.f # "none"
    /\ lastFetch.hit
    /\ lastFetch.time - lastFetch.prev.stored = TTL - 1
    /\ Len(lastFetch.ret.rows) > 0
    /\ lastFetch.sql = 0

\* C2: when the entry of (facet, window) was stored 600 seconds ago or more,
\* the fetch is a miss: the Gateway executes the query once and the entry is
\* overwritten with the result of that query and the time of the call.
C2_ExpiredEntryRefetched ==
    ( /\ lastFetch.f # "none"
      /\ lastFetch.prev.entry
      /\ lastFetch.time - lastFetch.prev.stored >= TTL )
    => ( /\ ~lastFetch.hit
         /\ lastFetch.sql = 1
         /\ cache[LastKey].entry
         /\ cache[LastKey].stored = lastFetch.time
         /\ cache[LastKey].table = lastFetch.ret
         /\ lastFetch.ret = TryQuery(lastFetch.f, lastFetch.days, lastFetch.up).ret )

\* an entry exactly 600 seconds old was replaced by a different table
C2_Witness ==
    /\ lastFetch.f # "none"
    /\ lastFetch.prev.entry
    /\ lastFetch.time - lastFetch.prev.stored = TTL
    /\ lastFetch.sql = 1
    /\ cache[LastKey].table # lastFetch.prev.table
    /\ cache[LastKey].stored = lastFetch.time

\* C3: for each facet, a query that raises and a query that returns zero rows
\* both make the fetch return pd.DataFrame(): no rows and no columns.
C3_ErrorAndEmptyConverge ==
    \A f \in Facets :
        ( /\ IsSet(df[f])
          /\ sqlCalls[f] = 1
          /\ \/ upstream[f] = "QueryError"
             \/ QueryRows(f, selected_days, upstream[f]) = << >> )
        => ( /\ df[f] = EmptyDataFrame
             /\ Len(df[f].rows) = 0
             /\ Len(df[f].columns) = 0 )

\* one run in which one facet's query raised and another's returned no rows
C3_Witness ==
    \E f, g \in Facets :
        /\ upstream[f] = "QueryError" /\ sqlCalls[f] = 1 /\ IsSet(df[f])
        /\ upstream[g] = "B" /\ sqlCalls[g] = 1 /\ IsSet(df[g])
        /\ QueryRows(g, selected_days, "B") = << >>
        /\ df[f] = df[g]

\* the elements of the run so far
Has(kind, f) == \E i \in 1..Len(out) : out[i] = El(kind, f)

IndexOf(kind, f) == CHOOSE i \in 1..Len(out) : out[i] = El(kind, f)

\* the heading that opens the part of the page that belongs to facet f
HeadingKind(f) ==
    IF f \in { "fetch_ai_usage_data", "fetch_cortex_analyst_usage", "fetch_document_ai_usage" }
    THEN "header" ELSE "subheader"

\* this run executed the body of f and its query raised
FailedNow(f) == sqlCalls[f] = 1 /\ upstream[f] = "QueryError"

\* C4: whatever subset of the seven queries fails, the run is not aborted and
\* a finished run has called all seven fetches with the selected window and
\* rendered all seven sections; a failing facet has the empty frame and every
\* facet whose body ran has exactly the frame its own query yields.
C4_FailureDoesNotAbort ==
    /\ pc # "crashed"
    /\ pc = "done" =>
         \A f \in Facets :
            /\ fetchArg[f] = selected_days
            /\ IsSet(df[f])
            /\ Has(HeadingKind(f), f)
            /\ Has("altair_chart", f) \/ Has("write", f)
            /\ FailedNow(f) => df[f] = EmptyDataFrame
            /\ sqlCalls[f] = 1 => df[f] = TryQuery(f, selected_days, upstream[f]).ret

\* a finished run in which some queries failed and another facet has its rows
C4_Witness ==
    /\ pc = "done"
    /\ \E f, g, h \in Facets :
          /\ f # g
          /\ FailedNow(f) /\ FailedNow(g)
          /\ sqlCalls[h] = 1 /\ upstream[h] = "A" /\ Len(df[h].rows) > 0
          /\ Has("altair_chart", h)

\* C5: an entry made by a failed query is used like any other: stored with the
\* empty frame and the time of the call, and while it is less than 600
\* seconds old a fetch of the key returns the empty frame without a query.
C5_ErrorResultCached ==
    [][ /\ \A f \in Facets :
             ( /\ CallsFetch(f)
               /\ cache[KeyNow(f)].entry
               /\ cache[KeyNow(f)].outcome = "error"
               /\ now - cache[KeyNow(f)].stored < TTL )
             => ( /\ df'[f] = EmptyDataFrame
                  /\ sqlCalls'[f] = sqlCalls[f]
                  /\ cache'[KeyNow(f)] = cache[KeyNow(f)] )
        /\ \A f \in Facets :
             ( /\ CallsFetch(f)
               /\ ~IsHit(cache[KeyNow(f)], now)
               /\ upstream[f] = "QueryError" \/ QueryRows(f, selected_days, upstream[f]) = << >> )
             => ( /\ cache'[KeyNow(f)].entry
                  /\ cache'[KeyNow(f)].table = EmptyDataFrame
                  /\ cache'[KeyNow(f)].stored = now ) ]_vars

\* a fetch answered with the cached empty frame of a failed query although
\* the query would now return rows
C5_Witness ==
    /\ lastFetch.f # "none"
    /\ lastFetch.hit
    /\ lastFetch.outcome = "error"
    /\ lastFetch.sql = 0
    /\ lastFetch.ret = EmptyDataFrame
    /\ lastFetch.up # "QueryError"
    /\ QueryRows(lastFetch.f, lastFetch.days, lastFetch.up) # << >>

\* C6: a fetch executes at most one query: one when its body runs, also when
\* the query raises, and the failing call returns the empty frame.
C6_NoRetry ==
    /\ \A f \in Facets : sqlCalls[f] <= 1
    /\ lastFetch.f # "none" =>
          /\ lastFetch.sql <= 1
          /\ (~lastFetch.hit /\ lastFetch.up = "QueryError") =>
                (lastFetch.sql = 1 /\ lastFetch.ret = EmptyDataFrame)

\* a fetch whose query raised
C6_Witness ==
    /\ lastFetch.f # "none"
    /\ ~lastFetch.hit
    /\ lastFetch.up = "QueryError"
    /\ lastFetch.outcome = "error"
    /\ lastFetch.sql = 1

AfterSelect == pc \notin { "get_session", "check_session", "selectbox", "stopped" }

AfterFetches ==
    pc \in { "section1", "llm_tab1", "llm_tab2", "search_tab1", "search_tab2", "section4",
             "section5", "done" }

\* C7: the window of a run is one of 7, 14, 30, 60, 90, it is 30 as long as
\* the user has selected nothing, and every fetch of the run is called with it.
C7_OneWindowPerPass ==
    /\ AfterSelect => selected_days \in { 7, 14, 30, 60, 90 }
    /\ (AfterSelect /\ ~userSelected) => selected_days = 30
    /\ \A f \in Facets : fetchArg[f] # 0 => fetchArg[f] = selected_days
    /\ AfterFetches => \A f \in Facets : fetchArg[f] = selected_days

\* runs finished with the default window and with a window the user picked
C7_Witness ==
    /\ pc = "done"
    /\ \A f \in Facets : fetchArg[f] = selected_days
    /\ \/ ~userSelected /\ selected_days = 30 /\ passes = 2
       \/ userSelected /\ selected_days = 90

ConsumptionFacet == "fetch_cortex_search_by_consumption"

\* positions of the rows of d whose service_name is S
Matching(d, S) == { i \in 1..Len(d.rows) : d.rows[i][ColIndex(d, "service_name")] = S }

\* position in d of the k-th row whose service_name is S
KthMatch(d, S, k) ==
    CHOOSE i \in Matching(d, S) : Cardinality({ j \in Matching(d, S) : j <= i }) = k

\* C8: once tab 3.2 has filtered a non-empty table, the selected service is
\* one of the options; for "All Services" the result is the table itself; for
\* a service S it has the table's columns and exactly the rows of S, each
\* unchanged and in the table's order; and the fetched table is still the
\* table kept in the cache.
C8_ServiceFilter ==
    IsSet(filtered_df_consumption) =>
        LET d == df[ConsumptionFacet]
            S == selected_service
            fl == filtered_df_consumption
        IN /\ S \in service_names(d)
           /\ S = AllServices => fl = d
           /\ S # AllServices =>
                 /\ fl.columns = d.columns
                 /\ Len(fl.rows) = Cardinality(Matching(d, S))
                 /\ \A k \in 1..Len(fl.rows) : fl.rows[k] = d.rows[KthMatch(d, S, k)]
           /\ d = cache[KeyNow(ConsumptionFacet)].table
           /\ d = TryQuery(ConsumptionFacet, selected_days,
                           upstream[ConsumptionFacet]).ret

\* scenario C: "ServiceX" selected on a table of 3 rows, 2 of them of ServiceX
C8_Witness ==
    /\ IsSet(filtered_df_consumption)
    /\ selected_service = "ServiceX"
    /\ Len(df[ConsumptionFacet].rows) = 3
    /\ Len(filtered_df_consumption.rows) = 2
    /\ pc = "done"

BannerKinds == { "error", "warning", "error_query" }

Pos(f) == CHOOSE i \in 1..Len(FetchOrder) : FetchOrder[i] = f

\* position of the last element of f's error banner
BannerEnd(f) ==
    CHOOSE i \in 1..Len(out) :
        /\ out[i].facet = f /\ out[i].kind \in BannerKinds
        /\ \A j \in (i + 1)..Len(out) : ~(out[j].facet = f /\ out[j].kind \in BannerKinds)

\* position at which the first facet section starts
FirstSection == IndexOf("markdown", "fetch_ai_usage_data")

RowsInWindow(f, N, s) == SelectSeq(ViewRows(f, s), LAMBDA r : r[1][2] >= 0 - N)

\* the frame fetched for f holds exactly the rows of f's view in the window
WindowRowsFetched(f) ==
    ( /\ IsSet(df[f])
      /\ sqlCalls[f] = 1
      /\ upstream[f] # "QueryError" )
    => LET want == RowsInWindow(f, selected_days, upstream[f])
       IN /\ Len(df[f].rows) = Len(want)
          /\ \A i \in 1..Len(want) :
                \E j \in 1..Len(df[f].rows) :
                   /\ df[f].rows[j][1] = to_datetime(want[i][1])
                   /\ \A c \in 2..Len(want[i]) : df[f].rows[j][c] = want[i][c]
          /\ \A j \in 1..Len(df[f].rows) : df[f].rows[j][1][2] >= 0 - selected_days

\* C11: for every window N and each of the seven facets, the fetched frame
\* holds every row of the facet's view whose date is >= (current date - N) and
\* no earlier row; for the AI-services facet also when all N + 1 days of the
\* window have data.
C11_AllRowsOfWindow == \A f \in Facets : WindowRowsFetched(f)

\* the six facets whose query has no LIMIT return every row of the window
C11_FacetsWithoutLimit == \A f \in Facets \ { "fetch_ai_usage_data" } : WindowRowsFetched(f)

\* the entry of key k is younger than the ttl
Fresh(k) == cache[k].entry /\ now - cache[k].stored < TTL

\* C12: a cache entry is invalidated by elapsed time only: while less than 600
\* seconds have passed since it was stored, no step (a window change, a change
\* of the service filter, a rerun, the fetch of another key or of the same key,
\* a change of the upstream data) removes or replaces it, and a fetch of its
\* key returns the stored table without a query, whatever the upstream data
\* has become.
C12_OnlyTimeInvalidates ==
    [][ /\ \A k \in Keys : Fresh(k) => cache'[k] = cache[k]
        /\ \A f \in Facets :
              (CallsFetch(f) /\ Fresh(KeyNow(f)))
              => ( /\ df'[f] = cache[KeyNow(f)].table
                   /\ sqlCalls'[f] = sqlCalls[f] ) ]_vars

\* C12 happens: after a window change and some time, a fetch returns a stored
\* table that the query would no longer produce, while the entry stored under
\* the earlier window is still in the cache
C12_Witness ==
    /\ lastFetch.f # "none"
    /\ lastFetch.hit
    /\ userSelected
    /\ lastFetch.days # DefaultDays
    /\ lastFetch.time > lastFetch.prev.stored
    /\ lastFetch.time - lastFetch.prev.stored < TTL
    /\ lastFetch.ret = lastFetch.prev.table
    /\ lastFetch.ret # TryQuery(lastFetch.f, lastFetch.days, upstream[lastFetch.f]).ret
    /\ cache[<< lastFetch.f, DefaultDays >>].entry
    /\ cache[LastKey] = lastFetch.prev

\* the elements a run without a session may show: the page head and the two
\* messages of the failed session acquisition
HeadKinds == { "title", "markdown", "caption", "error", "warning" }

\* the script is at one of the seven fetch calls
AtFetch == pc \in Facets

\* C13: when the session cannot be acquired, the run stops before the window
\* selector: no fetch function is called, no query is executed, no cache entry
\* is created and no selector or section is rendered; so the guard at the top
\* of each fetch function (return an empty table without a session) is never
\* the path a call takes: every fetch call happens with a session.
C13_StopsWithoutSession ==
    /\ ~in_snowflake =>
          /\ pc \in { "get_session", "check_session", "stopped" }
          /\ selected_days = 0
          /\ lastFetch = NoFetch
          /\ \A f \in Facets : sqlCalls[f] = 0 /\ fetchArg[f] = 0 /\ ~IsSet(df[f])
          /\ \A k \in Keys : cache[k] = NoEntryRec /\ ~lastCall[k].called
          /\ \A i \in 1..Len(out) : out[i].facet = "page" /\ out[i].kind \in HeadKinds
    /\ AtFetch => SESSION_AVAILABLE
    /\ lastFetch.outcome # "no_session"
    /\ \A k \in Keys : cache[k].outcome # "no_session"

\* C13 happens: a run, and a rerun after it, stopped without a session, the
\* two messages of the failed acquisition the last things on the page
C13_Witness ==
    /\ ~in_snowflake
    /\ ~SESSION_AVAILABLE
    /\ pc = "stopped"
    /\ passes = 2
    /\ Len(out) >= 2
    /\ out[Len(out) - 1] = El("error", "page")
    /\ out[Len(out)] = El("warning", "page")

====
